---- MODULE Spec2Model ----
(***************************************************************************)
(* Note store, search index and link tracker of notetaker-mcp              *)
(* (packages/mcp-server: noteService.ts with LinkTracker, searchService.ts)*)
(* as a state machine.  Strings are sequences of one-character strings, so *)
(* that path joining, prefix tests and splitting are computed, not assumed.*)
(***************************************************************************)
EXTENDS Integers, Sequences, FiniteSets, TLC

\* ------------------------------------------------------------------ bounds

\* Minutes the wall clock can reach (timestamps are minute-granular).
MaxClock == 2

\* Longest title handed to sanitizeTitle.
MaxTitleLen == 3

\* ------------------------------------------------------- strings and paths

\* NOTES_DIR as a string: "/n".
NOTES_DIR == <<"/", "n">>

\* The ".md" extension appended to a title, kept as one symbol.
MdExt == <<".md">>

\* s.startsWith(p) on strings.
StartsWith(s, p) == Len(p) <= Len(s) /\ SubSeq(s, 1, Len(p)) = p

\* The segments of a path string, split at "/" (empty segments kept).
RECURSIVE SplitFrom(_, _, _)
SplitFrom(s, i, cur) ==
  IF i > Len(s) THEN <<cur>>
  ELSE IF s[i] = "/" THEN <<cur>> \o SplitFrom(s, i + 1, <<>>)
  ELSE SplitFrom(s, i + 1, Append(cur, s[i]))

Split(s) == SplitFrom(s, 1, <<>>)

\* path.normalize of an absolute path, as its list of segments: "" and "."
\* are dropped, ".." removes the segment before it (and is dropped at "/").
RECURSIVE NormalizeFrom(_, _, _)
NormalizeFrom(segs, i, stack) ==
  IF i > Len(segs) THEN stack
  ELSE IF segs[i] = <<>> \/ segs[i] = <<".">> THEN NormalizeFrom(segs, i + 1, stack)
  ELSE IF segs[i] = <<".", ".">>
       THEN NormalizeFrom(segs, i + 1,
                          IF stack = <<>> THEN stack ELSE SubSeq(stack, 1, Len(stack) - 1))
  ELSE NormalizeFrom(segs, i + 1, Append(stack, segs[i]))

Normalize(s) == NormalizeFrom(Split(s), 1, <<>>)

\* The string of a normalized absolute path: "/" before every segment.
RECURSIVE PathString(_)
PathString(segs) ==
  IF segs = <<>> THEN <<>> ELSE <<"/">> \o Head(segs) \o PathString(Tail(segs))

\* path.join(NOTES_DIR, `${noteTitle}.md`), normalized.
JoinNotePath(noteTitle) == Normalize(NOTES_DIR \o <<"/">> \o noteTitle \o MdExt)

\* validateNotePath's test: resolvedPath.startsWith(resolvedNotesDir).
PathAccepted(noteTitle) ==
  StartsWith(PathString(JoinNotePath(noteTitle)), PathString(Normalize(NOTES_DIR)))

\* The characters /[^a-zA-Z0-9\s\-_]/ leaves in place: letters, digits,
\* whitespace, hyphen and underscore.
AllowedChars == {"a", "b", "n", "s", "x"} \cup {"0", "1", "2"} \cup {" "} \cup {"-", "_"}
Whitespace == {" "}

\* title.replace(/[^a-zA-Z0-9\s\-_]/g, "").
StripUnsafe(title) == SelectSeq(title, LAMBDA ch : ch \in AllowedChars)

\* String.prototype.trim.
RECURSIVE TrimStart(_)
TrimStart(str) ==
  IF str # <<>> /\ Head(str) \in Whitespace THEN TrimStart(Tail(str)) ELSE str
RECURSIVE TrimEnd(_)
TrimEnd(str) ==
  IF str # <<>> /\ str[Len(str)] \in Whitespace
  THEN TrimEnd(SubSeq(str, 1, Len(str) - 1)) ELSE str
Trim(str) == TrimEnd(TrimStart(str))

\* sanitizeTitle(title) of src/noteService.ts.
SanitizeTrimFirst(title) == StripUnsafe(Trim(title))
SanitizeTitle(title) == Trim(StripUnsafe(title))

\* path.join(NOTES_DIR, `${sanitizedTitle}.md`) of src/noteService.ts.
SanitizedNotePath(noteTitle) ==
  Normalize(NOTES_DIR \o <<"/">> \o SanitizeTitle(noteTitle) \o MdExt)

\* The directories that exist: ensureNotesDir creates NOTES_DIR with the
\* directories above it (mkdir recursive), nothing creates one below it.
Dirs == {SubSeq(Normalize(NOTES_DIR), 1, k) : k \in 0..Len(Normalize(NOTES_DIR))}

\* The directory a file path lies in.
ParentDir(path) == SubSeq(path, 1, Len(path) - 1)

\* ------------------------------------------------------- titles and texts

Alpha == <<"a">>
Beta == <<"b">>
\* "./a": path.join resolves it to the file of "a".
DotAlpha == <<".", "/", "a">>
\* "../x": resolves outside NOTES_DIR, validateNotePath throws.
UpX == <<".", ".", "/", "x">>
\* "s/x": inside NOTES_DIR, in a directory that does not exist (ENOENT).
SubX == <<"s", "/", "x">>

\* "../nx": resolves to "/nx.md", next to NOTES_DIR; its path string
\* begins with "/n".
SiblingNx == <<".", ".", "/", "n", "x">>

Titles == {Alpha, Beta, DotAlpha, UpX, SubX}

\* A third plain title.
Gamma == <<"x">>

\* The target of "[[ ]]" after trim(): the empty string.
EmptyTarget == <<>>

\* Every title and every link target a text can name.
Names == Titles \cup {SiblingNx, EmptyTarget, Gamma}

\* A text is a sequence of tokens: a word, or a [[target]] link markup.
Word(w) == [kind |-> "word", val |-> w]
Link(t) == [kind |-> "link", val |-> t]

W_hi == <<"h", "i">>
W_see == <<"s", "e", "e">>

\* The note bodies callers send.
BodyHi == <<Word(W_hi)>>
BodySeeBeta == <<Word(W_see), Link(Beta)>>
BodySeeAlpha == <<Word(W_see), Link(Alpha)>>
Bodies == {BodyHi, BodySeeBeta, BodySeeAlpha}


\* A frontmatter is a map from keys to values (token sequences).
EmptyFm == [k \in {} |-> <<>>]

\* The caller's frontmatter blocks: none, one user key, and one that also
\* supplies the three reserved keys (as in "should not allow overriding
\* system fields"), with a user value that holds link markup.
ForgedStamp == <<"2", "0", "2", "0">>
FmTags == [k \in {"tags"} |-> <<Word(<<"t", "a", "g">>)>>]
FmForged ==
  [k \in {"title", "createdAt", "updatedAt", "ref"} |->
     CASE k = "title" -> <<Word(<<"f", "o", "r", "g", "e", "d">>)>>
       [] k = "createdAt" -> <<Word(ForgedStamp)>>
       [] k = "updatedAt" -> <<Word(ForgedStamp)>>
       [] OTHER -> <<Link(Beta)>>]
Fms == {EmptyFm, FmTags, FmForged}

\* A raw text: the frontmatter block, the body, and whether the body ends
\* with a newline.
RawText(fm, body, nl) == [fm |-> fm, body |-> body, nl |-> nl]

\* Scenario B: the words "gravity" and "calculus", and the texts of the
\* three notes, the third with "chemical reactions".
W_gravity == <<"g", "r", "a", "v", "i", "t", "y">>
W_calculus == <<"c", "a", "l", "c", "u", "l", "u", "s">>
FindInputs ==
  {RawText(EmptyFm, <<Word(W_gravity)>>, FALSE),
   RawText(EmptyFm, <<Word(W_calculus)>>, FALSE),
   RawText(EmptyFm, <<Word(<<"c", "h", "e", "m", "i", "c", "a", "l">>),
                      Word(<<"r", "e", "a", "c", "t", "i", "o", "n", "s">>)>>, FALSE)}

\* The query "gravity calculus".
FindQuery == W_gravity \o <<" ">> \o W_calculus

\* --------------------------------------------------------------- gray-matter

\* matter(text): the frontmatter data and the content after the block.
Matter(text) == [data |-> text.fm, content |-> [toks |-> text.body, nl |-> text.nl]]

\* matter.stringify(content, data): the block, then the content, ended with
\* a newline when it has none.
Stringify(content, data) == RawText(data, content.toks, TRUE)

\* ------------------------------------------------------------------ saveNote

RESERVED_FIELDS == {"title", "createdAt", "updatedAt"}

\* The timestamp string of minute m ("YYYY-MM-DD HH:MM", local time).
FormatNow(m) == <<"T", <<"1", "2", "3", "4", "5", "6", "7", "8", "9">>[m]>>

\* Object.fromEntries(Object.entries(frontmatter).filter(not reserved)).
UserMetadataKeepAll(frontmatter) == frontmatter
UserMetadata(frontmatter) ==
  [k \in DOMAIN frontmatter \ RESERVED_FIELDS |-> frontmatter[k]]

\* existingFrontmatter.createdAt || now.
CreatedAtAlwaysNow(existingFrontmatter, now) == <<Word(now)>>
CreatedAt(existingFrontmatter, now) ==
  IF "createdAt" \in DOMAIN existingFrontmatter /\ existingFrontmatter["createdAt"] # <<>>
  THEN existingFrontmatter["createdAt"]
  ELSE <<Word(now)>>

\* { title, createdAt, updatedAt, ...userMetadata }: a later key wins.
FullMetadataPatch(noteTitle, existingFrontmatter, userMetadata, now) ==
  [k \in RESERVED_FIELDS \cup DOMAIN userMetadata \cup DOMAIN existingFrontmatter |->
     IF k \in DOMAIN userMetadata THEN userMetadata[k]
     ELSE IF k = "title" THEN <<Word(noteTitle)>>
     ELSE IF k = "createdAt" THEN CreatedAt(existingFrontmatter, now)
     ELSE IF k = "updatedAt" THEN <<Word(now)>>
     ELSE existingFrontmatter[k]]
FullMetadata(noteTitle, existingFrontmatter, userMetadata, now) ==
  [k \in RESERVED_FIELDS \cup DOMAIN userMetadata |->
     IF k \in DOMAIN userMetadata THEN userMetadata[k]
     ELSE IF k = "title" THEN <<Word(noteTitle)>>
     ELSE IF k = "createdAt" THEN CreatedAt(existingFrontmatter, now)
     ELSE <<Word(now)>>]

\* The text saveNote writes for `note` over the file `existingNote` (a set
\* holding the existing text, or empty): lines 255-285.
FileContent(noteTitle, noteContent, existingNote, clockNow) ==
  LET parsed == Matter(noteContent)
      userMetadata == UserMetadata(parsed.data)
      now == FormatNow(clockNow)
      existingFrontmatter ==
        IF existingNote = {} THEN EmptyFm
        ELSE Matter(CHOOSE x \in existingNote : TRUE).data
      fullMetadata == FullMetadata(noteTitle, existingFrontmatter, userMetadata, now)
  IN Stringify(parsed.content, fullMetadata)

\* --------------------------------------------------------------- note links

\* The order gray-matter writes the keys in: fullMetadata's insertion order.
KeyOrder == <<"title", "createdAt", "updatedAt", "tags", "ref">>

\* A frontmatter key as the word it is in the file's text.
KeyWord(k) ==
  CASE k = "title" -> <<"t", "i", "t", "l", "e">>
    [] k = "createdAt" -> <<"c", "r", "e", "a", "t", "e", "d", "A", "t">>
    [] k = "updatedAt" -> <<"u", "p", "d", "a", "t", "e", "d", "A", "t">>
    [] k = "tags" -> <<"t", "a", "g", "s">>
    [] OTHER -> <<"r", "e", "f">>

\* The tokens of the frontmatter block, line by line: the key, then its value.
RECURSIVE FmTokensFrom(_, _)
FmTokensFrom(fm, i) ==
  IF i > Len(KeyOrder) THEN <<>>
  ELSE (IF KeyOrder[i] \in DOMAIN fm
        THEN <<Word(KeyWord(KeyOrder[i]))>> \o fm[KeyOrder[i]]
        ELSE <<>>) \o FmTokensFrom(fm, i + 1)

\* The tokens of a whole file text: the frontmatter block, then the body.
TextTokens(text) == FmTokensFrom(text.fm, 1) \o text.body

IsLink(tok) == tok.kind = "link"

\* parseNoteLinks(content): every [[target]] of the text, in order, each
\* target trimmed (match[1].trim()).
ParseNoteLinks(content) ==
  LET ls == SelectSeq(TextTokens(content), IsLink)
  IN [i \in 1..Len(ls) |-> Trim(ls[i].val)]

\* target.includes(part).
Includes(target, part) ==
  \E i \in 1..(Len(target) - Len(part) + 1) : SubSeq(target, i, i + Len(part) - 1) = part

\* isValidLinkTarget(target).
IsValidLinkTarget(target) ==
  /\ Len(Trim(target)) > 0
  /\ ~Includes(target, <<".", ".">>)
  /\ ~Includes(target, <<"/">>)
  /\ ~Includes(target, <<"\\">>)

\* extractOutgoingLinks(noteTitle, content): one relationship per link.
ExtractOutgoingLinks(noteTitle, content) ==
  LET ls == ParseNoteLinks(content)
  IN [i \in 1..Len(ls) |-> [fromNote |-> noteTitle, toNote |-> ls[i]]]

\* ------------------------------------------------------------- LinkTracker
\* A tracker is [relationships, backlinks]; a Map key that is absent is the
\* empty set here (the code never stores an empty set under a key).

EmptyTracker ==
  [relationships |-> [n \in Names |-> {}], backlinks |-> [n \in Names |-> {}]]

\* removeNoteLinks(noteTitle).
RemoveNoteLinks(lt, noteTitle) ==
  LET oldTargets == lt.relationships[noteTitle]
      cleared == [n \in Names |->
                    IF n \in oldTargets THEN lt.backlinks[n] \ {noteTitle}
                    ELSE lt.backlinks[n]]
  IN [relationships |-> [lt.relationships EXCEPT ![noteTitle] = {}],
      backlinks |-> [cleared EXCEPT ![noteTitle] = {}]]

\* updateNoteLinks(noteTitle, content).
UpdateNoteLinksMerge(lt, noteTitle, content) ==
  LET outgoingLinks == ExtractOutgoingLinks(noteTitle, content)
      targets == {outgoingLinks[i].toNote : i \in 1..Len(outgoingLinks)}
  IN IF Len(outgoingLinks) > 0
     THEN [relationships |-> [lt.relationships EXCEPT ![noteTitle] = targets],
           backlinks |-> [n \in Names |->
                            IF n \in targets THEN lt.backlinks[n] \cup {noteTitle}
                            ELSE lt.backlinks[n]]]
     ELSE lt
UpdateNoteLinks(lt, noteTitle, content) ==
  LET removed == RemoveNoteLinks(lt, noteTitle)
      outgoingLinks == ExtractOutgoingLinks(noteTitle, content)
      targets == {outgoingLinks[i].toNote : i \in 1..Len(outgoingLinks)}
  IN IF Len(outgoingLinks) > 0
     THEN [relationships |-> [removed.relationships EXCEPT ![noteTitle] = targets],
           backlinks |-> [n \in Names |->
                            IF n \in targets THEN removed.backlinks[n] \cup {noteTitle}
                            ELSE removed.backlinks[n]]]
     ELSE removed

\* getOutgoingLinks / getBacklinks.
GetOutgoingLinks(lt, noteTitle) == lt.relationships[noteTitle]
GetBacklinks(lt, noteTitle) == lt.backlinks[noteTitle]

\* ----------------------------------------------------------- SearchService
\* The MiniSearch index is the map from document id (the note's title) to
\* the stored fields {title, content}.

EmptyIndex == [t \in {} |-> [title |-> <<>>, content |-> RawText(EmptyFm, <<>>, FALSE)]]

Doc(note) == [title |-> note.title, content |-> note.content]

\* miniSearch.discard(id), guarded by has(id).
IndexWithout(idx, id) == [t \in DOMAIN idx \ {id} |-> idx[t]]

\* removeNote(noteTitle).
RemoveNote(idx, initialized, noteTitle) ==
  IF ~initialized THEN idx ELSE IndexWithout(idx, noteTitle)

\* addNote(note): an entry with the same id is discarded first.
AddNoteIfAbsent(idx, initialized, note) ==
  IF ~initialized \/ note.title \in DOMAIN idx THEN idx
  ELSE [t \in DOMAIN idx \cup {note.title} |->
          IF t = note.title THEN Doc(note) ELSE idx[t]]
AddNote(idx, initialized, note) ==
  IF ~initialized THEN idx
  ELSE [t \in DOMAIN idx \cup {note.title} |->
          IF t = note.title THEN Doc(note) ELSE idx[t]]

\* updateNote(note): removeNote, then addNote.
UpdateNoteUnguarded(idx, initialized, note) ==
  AddNote(RemoveNote(idx, TRUE, note.title), TRUE, note)
UpdateNote(idx, initialized, note) ==
  IF ~initialized THEN idx
  ELSE AddNote(RemoveNote(idx, initialized, note.title), initialized, note)

\* initialize(notes) on the index idx: removeAll, which leaves nothing of
\* idx, then addAll with id = title.
InitializeKeepOld(idx, notes) ==
  [t \in DOMAIN idx \cup {n.title : n \in notes} |->
     IF t \in {n.title : n \in notes} THEN Doc(CHOOSE n \in notes : n.title = t) ELSE idx[t]]
Initialize(idx, notes) ==
  [t \in {n.title : n \in notes} |-> Doc(CHOOSE n \in notes : n.title = t)]

\* MiniSearch's tokenizer splits at spaces and punctuation.
Punctuation == {" ", ".", "/"}

RECURSIVE TokenizeFrom(_, _, _)
TokenizeFrom(s, i, cur) ==
  IF i > Len(s) THEN (IF cur = <<>> THEN {} ELSE {cur})
  ELSE IF s[i] \in Punctuation
       THEN (IF cur = <<>> THEN {} ELSE {cur}) \cup TokenizeFrom(s, i + 1, <<>>)
  ELSE TokenizeFrom(s, i + 1, Append(cur, s[i]))

Tokenize(s) == TokenizeFrom(s, 1, <<>>)

\* The terms indexed for a document: those of its two fields.
TitleTerms(doc) == Tokenize(doc.title)
ContentTerms(doc) ==
  LET toks == TextTokens(doc.content)
  IN UNION {Tokenize(toks[i].val) : i \in 1..Len(toks)}

\* searchOptions: fuzzy 0.2 (in tenths), prefix true.
FuzzyTenths == 2

\* The edit distance fuzzy matching allows for a term: round(0.2 * length).
MaxDistance(term) == (FuzzyTenths * Len(term) + 5) \div 10

\* Whether a and b are within k edits of each other.
RECURSIVE WithinEdits(_, _, _)
WithinEdits(a, b, k) ==
  IF k < 0 THEN FALSE
  ELSE IF a = <<>> THEN Len(b) <= k
  ELSE IF b = <<>> THEN Len(a) <= k
  ELSE IF Head(a) = Head(b) THEN WithinEdits(Tail(a), Tail(b), k)
  ELSE \/ WithinEdits(Tail(a), Tail(b), k - 1)
       \/ WithinEdits(Tail(a), b, k - 1)
       \/ WithinEdits(a, Tail(b), k - 1)

\* A query term matches an indexed term exactly, as its prefix, or fuzzily.
TermMatches(q, term) ==
  \/ StartsWith(term, q)
  \/ WithinEdits(q, term, MaxDistance(q))

\* A document is a hit when any term of the query string matches any of its
\* terms (MiniSearch combines the terms of a query with OR).
DocMatchesAll(doc, query) ==
  \A q \in Tokenize(query) :
    \E term \in TitleTerms(doc) \cup ContentTerms(doc) : TermMatches(q, term)
DocMatches(doc, query) ==
  \E q \in Tokenize(query) :
    \E term \in TitleTerms(doc) \cup ContentTerms(doc) : TermMatches(q, term)

\* search(query): the stored fields of the hits ([] when uninitialized or
\* when query.trim() is empty).
SearchAllOnBlank(idx, initialized, query) ==
  IF ~initialized THEN {}
  ELSE IF Trim(query) = <<>> THEN {idx[t] : t \in DOMAIN idx}
  ELSE {idx[t] : t \in {u \in DOMAIN idx : DocMatches(idx[u], query)}}
Search(idx, initialized, query) ==
  IF ~initialized \/ Trim(query) = <<>> THEN {}
  ELSE {idx[t] : t \in {u \in DOMAIN idx : DocMatches(idx[u], query)}}

\* The query strings callers send: "", " ", "hi", "see".
Queries == {<<>>, <<" ">>, W_hi, W_see}

\* -------------------------------------------------------------------- state

VARIABLES
  disk,           \* the files: path (list of segments) -> text
  index,          \* searchService.miniSearch: id -> {title, content}
  isInitialized,  \* searchService.isInitialized
  linkTracker,    \* linkTracker: [relationships, backlinks]
  clock,          \* the wall clock, in minutes
  last,           \* the call that returned last: [op, title, ok, priorKeys]
  calls,          \* the calls in flight: caller -> where its call stands
  lastWriter      \* which caller wrote the file / the derived stores last

vars == <<disk, index, isInitialized, linkTracker, clock, last, calls, lastWriter>>

NoInput == RawText(EmptyFm, <<>>, FALSE)

\* priorKeys: the header keys the title's file held when a saveNote began
\* (none when there was no file, and for every other call).
\* raised: the error the call threw to its caller ("none" when it returned
\* a value).
\* hits: the notes a search returned (none for every other call).
ReturnedSave(title, ok, priorKeys, raised) ==
  [op |-> "save", title |-> title, ok |-> ok, priorKeys |-> priorKeys, raised |-> raised,
   hits |-> {}]
Returned(op, title, ok) ==
  [op |-> op, title |-> title, ok |-> ok, priorKeys |-> {}, raised |-> "none", hits |-> {}]
ReturnedHits(op, query, hits) == [Returned(op, query, TRUE) EXCEPT !.hits = hits]

\* The outcomes of one file-system call: it works, or it throws (EACCES,
\* EIO, ...).
IoOutcomes == {"ok", "fail"}

EmptyDisk == [p \in {} |-> NoInput]

\* The callers whose calls can overlap: two that put, one that gets, one
\* that runs initializeSearch ("i") and one that removes ("d").
Writers == {"w1", "w2"}
Readers == {"r"}
Callers == Writers \cup Readers \cup {"i", "d"}

\* A call that has not started: pc is where the call stands, text the
\* fileContent a put has built, priorKeys the header keys it found, seen what
\* a get or getAllNotes has read, files the listed files still to be read.
IdleCall == [pc |-> "idle", text |-> NoInput, priorKeys |-> {}, seen |-> {}, files |-> {}]
IdleCalls == [p \in Callers |-> IdleCall]
NoWriter == [file |-> "none", derived |-> "none"]

Init ==
  /\ disk = EmptyDisk
  /\ index = EmptyIndex
  /\ isInitialized = FALSE
  /\ linkTracker = EmptyTracker
  /\ clock = 1
  /\ calls = IdleCalls
  /\ lastWriter = NoWriter
  /\ last = Returned("start", <<>>, TRUE)

\* ------------------------------------------------------------------ getNote

\* getNote(noteTitle) on the files d: the note, or nothing (null) when the
\* path is rejected or the file cannot be read.
GetNoteFrom(d, noteTitle) ==
  IF PathAccepted(noteTitle) /\ JoinNotePath(noteTitle) \in DOMAIN d
  THEN {[title |-> noteTitle, content |-> d[JoinNotePath(noteTitle)]]}
  ELSE {}

\* What is thrown inside the try block of getNote and of deleteNote: by
\* validateNotePath, or by the file-system call (no such file, or a failure
\* on a file that exists).
ThrownInTry(d, noteTitle, io) ==
  IF ~PathAccepted(noteTitle) THEN "InvalidPath"
  ELSE IF JoinNotePath(noteTitle) \notin DOMAIN d THEN "ENOENT"
  ELSE IF io # "ok" THEN "io"
  ELSE "none"

\* catch (e) { return null; } and catch (e) { return false; }: whatever was
\* thrown, the caller gets a value.
Caught(error) == "none"

ReturnedCaught(op, title, ok, error) ==
  [Returned(op, title, ok) EXCEPT !.raised = Caught(error)]

GetNote(noteTitle, io) ==
  /\ last' = ReturnedCaught("get", noteTitle,
                            io = "ok" /\ GetNoteFrom(disk, noteTitle) # {},
                            ThrownInTry(disk, noteTitle, io))
  /\ UNCHANGED <<disk, index, isInitialized, linkTracker, clock, calls, lastWriter>>

\* -------------------------------------------------------------- getAllNotes

\* The files readdir(NOTES_DIR) lists that end with ".md".
NoteFiles(d) ==
  {p \in DOMAIN d : ParentDir(p) = Normalize(NOTES_DIR) /\ p[Len(p)][Len(p[Len(p)])] = ".md"}

\* file.replace(/\.md$/, "").
TitleOfFile(p) == SubSeq(p[Len(p)], 1, Len(p[Len(p)]) - 1)

GetAllNotes(d) == {[title |-> TitleOfFile(p), content |-> d[p]] : p \in NoteFiles(d)}

\* ----------------------------------------------------------------- saveNote

\* fs.writeFile(notePath, ...) succeeds when the directory exists and the
\* call does not fail.
WriteSucceeds(notePath, io) == io = "ok" /\ ParentDir(notePath) \in Dirs

\* Lines 288-293: the index entry saveNote makes, reached only after the
\* write returned.
SaveIndexIncoming(idx, initialized, noteTitle, noteContent, fileContent, wrote) ==
  IF wrote
  THEN UpdateNote(idx, initialized, [title |-> noteTitle, content |-> noteContent])
  ELSE idx
SaveIndex(idx, initialized, noteTitle, noteContent, fileContent, wrote) ==
  IF wrote
  THEN UpdateNote(idx, initialized, [title |-> noteTitle, content |-> fileContent])
  ELSE idx

\* Lines 295-296: the link update, reached only after the write returned.
SaveLinksBeforeWrite(lt, noteTitle, noteContent, fileContent, wrote) ==
  UpdateNoteLinks(lt, noteTitle, fileContent)
SaveLinks(lt, noteTitle, noteContent, fileContent, wrote) ==
  IF wrote THEN UpdateNoteLinks(lt, noteTitle, fileContent) ELSE lt

\* What saveNote throws: validateNotePath's error (line 252, outside any
\* try), or the error of fs.writeFile (line 286).
SaveRaises(accepted, wrote) ==
  IF ~accepted THEN "InvalidPath" ELSE IF ~wrote THEN "io" ELSE "none"

SaveNote(noteTitle, noteContent, io) ==
  LET accepted == PathAccepted(noteTitle)
      notePath == JoinNotePath(noteTitle)
      existingNote == {n.content : n \in GetNoteFrom(disk, noteTitle)}
      fileContent == FileContent(noteTitle, noteContent, existingNote, clock)
      wrote == accepted /\ WriteSucceeds(notePath, io)
  IN /\ disk' = IF wrote
                THEN [p \in DOMAIN disk \cup {notePath} |->
                        IF p = notePath THEN fileContent ELSE disk[p]]
                ELSE disk
     /\ index' = SaveIndex(index, isInitialized, noteTitle, noteContent, fileContent, wrote)
     /\ linkTracker' = SaveLinks(linkTracker, noteTitle, noteContent, fileContent, wrote)
     /\ last' = ReturnedSave(noteTitle, wrote, UNION {DOMAIN x.fm : x \in existingNote},
                             SaveRaises(accepted, wrote))
     /\ UNCHANGED <<isInitialized, clock, calls, lastWriter>>

\* --------------------------------------------------------------- deleteNote

\* Lines 303-305: validateNotePath, fs.access and fs.unlink all returned.
RemovedForce(d, noteTitle, io) == PathAccepted(noteTitle) /\ io = "ok"
Removed(d, noteTitle, io) ==
  PathAccepted(noteTitle) /\ JoinNotePath(noteTitle) \in DOMAIN d /\ io = "ok"

DeleteNote(noteTitle, io) ==
  LET notePath == JoinNotePath(noteTitle)
      removed == Removed(disk, noteTitle, io)
  IN /\ disk' = IF removed THEN [p \in DOMAIN disk \ {notePath} |-> disk[p]] ELSE disk
     /\ index' = IF removed THEN RemoveNote(index, isInitialized, noteTitle) ELSE index
     /\ linkTracker' = IF removed THEN RemoveNoteLinks(linkTracker, noteTitle)
                       ELSE linkTracker
     /\ last' = ReturnedCaught("delete", noteTitle, removed,
                               ThrownInTry(disk, noteTitle, io))
     /\ UNCHANGED <<isInitialized, clock, calls, lastWriter>>

\* --------------------------------------------------------- initializeSearch

\* The orders readdir can list a set of notes in.
Orders(notes) ==
  {o \in [1..Cardinality(notes) -> notes] : \A i, j \in DOMAIN o : o[i] = o[j] => i = j}

\* Lines 181-183: updateNoteLinks for every note, in order.
RECURSIVE TrackAll(_, _, _)
TrackAll(lt, order, i) ==
  IF i > Len(order) THEN lt
  ELSE TrackAll(UpdateNoteLinks(lt, order[i].title, order[i].content), order, i + 1)

InitializeSearchEffect(order) ==
  /\ index' = Initialize(index, GetAllNotes(disk))
  /\ isInitialized' = TRUE
  /\ linkTracker' = TrackAll(linkTracker, order, 1)

InitializeSearch ==
  \E order \in Orders(GetAllNotes(disk)) :
    /\ InitializeSearchEffect(order)
    /\ last' = Returned("init", <<>>, TRUE)
    /\ UNCHANGED <<disk, clock, calls, lastWriter>>

\* -------------------------------------------------------------- searchNotes

\* What searchNotes(query) returns on the files d and the index idx: every
\* note when query.trim() is empty, otherwise the hits of the index, built
\* first when it is not initialized.
SearchNotesResultIndexOnly(d, idx, initialized, query) ==
  Search(IF initialized THEN idx ELSE Initialize(idx, GetAllNotes(d)), initialized, query)
SearchNotesResult(d, idx, initialized, query) ==
  IF Trim(query) = <<>> THEN GetAllNotes(d)
  ELSE Search(IF initialized THEN idx ELSE Initialize(idx, GetAllNotes(d)), TRUE, query)

SearchNotes(query) ==
  /\ IF Trim(query) # <<>> /\ ~isInitialized
     THEN \E order \in Orders(GetAllNotes(disk)) : InitializeSearchEffect(order)
     ELSE UNCHANGED <<index, isInitialized, linkTracker>>
  /\ last' = ReturnedHits("search", query, SearchNotesResult(disk, index, isInitialized, query))
  /\ UNCHANGED <<disk, clock, calls, lastWriter>>

\* ------------------------------------------------------------ process, time

\* The process exits and starts again: the module-level singletons are
\* constructed anew, the files stay.
Restart ==
  /\ index' = EmptyIndex
  /\ isInitialized' = FALSE
  /\ linkTracker' = EmptyTracker
  /\ last' = Returned("start", <<>>, TRUE)
  /\ calls' = IdleCalls
  /\ lastWriter' = NoWriter
  /\ UNCHANGED <<disk, clock>>

Tick ==
  /\ clock < MaxClock
  /\ clock' = clock + 1
  /\ UNCHANGED <<disk, index, isInitialized, linkTracker, last, calls, lastWriter>>

\* ------------------------------------------------------- overlapping calls
\* saveNote and getNote are async: between two awaits the calls of other
\* callers run.  Every caller works on the note "a"; the two writers put
\* different texts.

ConcTitle == Alpha
ConcInput(p) ==
  IF p = "w1" THEN RawText(EmptyFm, BodyHi, FALSE) ELSE RawText(EmptyFm, BodySeeBeta, FALSE)

AtPc(p, pc) == calls[p].pc = pc
Goto(p, pc) == [calls EXCEPT ![p].pc = pc]

\* saveNote up to its first await (ensureNotesDir, line 251).
SaveBegin(p) ==
  /\ AtPc(p, "idle")
  /\ calls' = Goto(p, "getNote")
  /\ UNCHANGED <<disk, index, isInitialized, linkTracker, clock, last, lastWriter>>

\* Lines 252-285: the path, the parsed input, now, the file getNote reads
\* at this moment, and fileContent built from them.
SaveGetNote(p) ==
  LET existingNote == {n.content : n \in GetNoteFrom(disk, ConcTitle)}
  IN /\ AtPc(p, "getNote")
     /\ calls' = [calls EXCEPT ![p] =
                    [pc |-> "open",
                     text |-> FileContent(ConcTitle, ConcInput(p), existingNote, clock),
                     priorKeys |-> UNION {DOMAIN x.fm : x \in existingNote},
                     seen |-> {},
                     files |-> {}]]
     /\ UNCHANGED <<disk, index, isInitialized, linkTracker, clock, last, lastWriter>>

\* The call of p has thrown the error of fs.writeFile.
SaveThrows(p) ==
  /\ calls' = Goto(p, "failed")
  /\ last' = ReturnedSave(ConcTitle, FALSE, calls[p].priorKeys, "io")

\* fs.writeFile (line 286), first part: the file is opened with flag "w",
\* which creates it or truncates it to length 0; or the open fails.
SaveOpen(p, io) ==
  /\ AtPc(p, "open")
  /\ IF io = "ok"
     THEN /\ disk' = [q \in DOMAIN disk \cup {JoinNotePath(ConcTitle)} |->
                       IF q = JoinNotePath(ConcTitle) THEN NoInput ELSE disk[q]]
          /\ calls' = Goto(p, "write")
          /\ UNCHANGED last
     ELSE /\ SaveThrows(p)
          /\ UNCHANGED disk
  /\ UNCHANGED <<index, isInitialized, linkTracker, clock, lastWriter>>

\* fs.writeFile, second part: the data is written into the open file (the
\* later of two writes is taken to replace the earlier); or the write
\* fails (ENOSPC, EIO) and the file stays as the open left it.  A file that
\* was unlinked since the open is written all the same, and no path leads
\* to it (POSIX).
SaveWrite(p, io) ==
  /\ AtPc(p, "write")
  /\ IF io = "ok"
     THEN /\ disk' = [q \in DOMAIN disk |->
                       IF q = JoinNotePath(ConcTitle) THEN calls[p].text ELSE disk[q]]
          /\ calls' = Goto(p, "close")
          /\ lastWriter' = IF JoinNotePath(ConcTitle) \in DOMAIN disk
                           THEN [lastWriter EXCEPT !.file = p] ELSE lastWriter
          /\ UNCHANGED last
     ELSE /\ SaveThrows(p)
          /\ UNCHANGED <<disk, lastWriter>>
  /\ UNCHANGED <<index, isInitialized, linkTracker, clock>>

\* Lines 288-296 use the fileContent the call built, not the file.
FinishTextReread(d, fileContent) == d[JoinNotePath(ConcTitle)]
FinishText(d, fileContent) == fileContent

\* The file is closed, writeFile resolves, and lines 288-296 run in one
\* piece: the index entry and the links of the text this call built.
SaveFinish(p) ==
  LET fileContent == FinishText(disk, calls[p].text)
  IN /\ AtPc(p, "close")
     /\ index' = SaveIndex(index, isInitialized, ConcTitle, ConcInput(p), fileContent, TRUE)
     /\ linkTracker' = SaveLinks(linkTracker, ConcTitle, ConcInput(p), fileContent, TRUE)
     /\ calls' = Goto(p, "done")
     /\ lastWriter' = [lastWriter EXCEPT !.derived = p]
     /\ last' = ReturnedSave(ConcTitle, TRUE, calls[p].priorKeys, "none")
     /\ UNCHANGED <<disk, isInitialized, clock>>

\* getNote up to its first await (ensureNotesDir, line 236).
GetBegin(p) ==
  /\ AtPc(p, "idle")
  /\ calls' = Goto(p, "readFile")
  /\ UNCHANGED <<disk, index, isInitialized, linkTracker, clock, last, lastWriter>>

\* Lines 238-247: readFile returns what the file holds at this moment.
GetRead(p, io) ==
  LET found == IF io = "ok" THEN GetNoteFrom(disk, ConcTitle) ELSE {}
  IN /\ AtPc(p, "readFile")
     /\ calls' = [calls EXCEPT ![p].pc = "done", ![p].seen = {n.content : n \in found}]
     /\ last' = ReturnedCaught("get", ConcTitle, found # {}, ThrownInTry(disk, ConcTitle, io))
     /\ UNCHANGED <<disk, index, isInitialized, linkTracker, clock, lastWriter>>

\* deleteNote up to its first await (ensureNotesDir, line 300).
DeleteBegin ==
  /\ AtPc("d", "idle")
  /\ calls' = Goto("d", "access")
  /\ UNCHANGED <<disk, index, isInitialized, linkTracker, clock, last, lastWriter>>

\* The catch of line 313: deleteNote returns false.
DeleteCaught(io) ==
  /\ calls' = Goto("d", "done")
  /\ last' = ReturnedCaught("delete", ConcTitle, FALSE, ThrownInTry(disk, ConcTitle, io))

\* Lines 303-304: validateNotePath and fs.access of the file as it is now.
DeleteAccess(io) ==
  /\ AtPc("d", "access")
  /\ IF Removed(disk, ConcTitle, io)
     THEN calls' = Goto("d", "unlink") /\ UNCHANGED last
     ELSE DeleteCaught(io)
  /\ UNCHANGED <<disk, index, isInitialized, linkTracker, clock, lastWriter>>

\* fs.unlink (line 305): the path is removed, or unlink throws (the file is
\* gone since the access, or the I/O failed).
DeleteUnlink(io) ==
  /\ AtPc("d", "unlink")
  /\ IF Removed(disk, ConcTitle, io)
     THEN /\ disk' = [q \in DOMAIN disk \ {JoinNotePath(ConcTitle)} |-> disk[q]]
          /\ calls' = Goto("d", "removed")
          /\ UNCHANGED last
     ELSE /\ DeleteCaught(io)
          /\ UNCHANGED disk
  /\ UNCHANGED <<index, isInitialized, linkTracker, clock, lastWriter>>

\* unlink resolves and lines 307-313 run in one piece.
DeleteFinish ==
  /\ AtPc("d", "removed")
  /\ index' = RemoveNote(index, isInitialized, ConcTitle)
  /\ linkTracker' = RemoveNoteLinks(linkTracker, ConcTitle)
  /\ calls' = Goto("d", "done")
  /\ last' = Returned("delete", ConcTitle, TRUE)
  /\ UNCHANGED <<disk, isInitialized, clock, lastWriter>>

\* Lines 178-183 with the notes getAllNotes returned, in the order they
\* were read: initialize, then updateNoteLinks for every note.  They run in
\* the same turn as the last step of getAllNotes: nothing is awaited between.
InitFinish(notes) ==
  /\ index' = Initialize(index, {notes[k] : k \in 1..Len(notes)})
  /\ isInitialized' = TRUE
  /\ linkTracker' = TrackAll(linkTracker, notes, 1)
  /\ calls' = [calls EXCEPT !["i"].pc = "done", !["i"].files = {}, !["i"].seen = notes]
  /\ last' = Returned("init", <<>>, TRUE)

\* initializeSearch up to the listing: getAllNotes has awaited
\* ensureNotesDir and readdir (lines 188-190); with no file listed the loop
\* is skipped.
InitReaddir ==
  /\ AtPc("i", "idle")
  /\ IF NoteFiles(disk) = {}
     THEN InitFinish(<<>>)
     ELSE /\ calls' = [calls EXCEPT !["i"].pc = "reading", !["i"].files = NoteFiles(disk),
                                     !["i"].seen = <<>>]
          /\ UNCHANGED <<index, isInitialized, linkTracker, last>>
  /\ UNCHANGED <<disk, clock, lastWriter>>

\* One pass of the loop of getAllNotes (lines 193-200), for the listed
\* files in any order: readFile returns what the file holds now, or throws
\* (the file is gone, or cannot be read); nothing catches it, so getAllNotes
\* and initializeSearch reject.  While a readFile is awaited, other calls
\* run.
InitReadFile(file, io) ==
  LET notes == Append(calls["i"].seen, [title |-> TitleOfFile(file), content |-> disk[file]])
  IN /\ AtPc("i", "reading")
     /\ file \in calls["i"].files
     /\ IF io = "ok" /\ file \in DOMAIN disk
        THEN IF calls["i"].files = {file}
             THEN InitFinish(notes)
             ELSE /\ calls' = [calls EXCEPT !["i"].files = @ \ {file}, !["i"].seen = notes]
                  /\ UNCHANGED <<index, isInitialized, linkTracker, last>>
        ELSE /\ calls' = Goto("i", "failed")
             /\ last' = [Returned("init", <<>>, FALSE) EXCEPT !.raised = "io"]
             /\ UNCHANGED <<index, isInitialized, linkTracker>>
     /\ UNCHANGED <<disk, clock, lastWriter>>

\* ----------------------------------------------------------- specifications

\* Link graph: two notes that can link to each other and to themselves.
LinkTitles == {Alpha, Beta}
LinkInputs == {RawText(EmptyFm, body, FALSE) : body \in Bodies}

NextLinks ==
  \/ \E t \in LinkTitles, c \in LinkInputs, io \in IoOutcomes : SaveNote(t, c, io)
  \/ \E t \in LinkTitles, io \in IoOutcomes : DeleteNote(t, io)
  \/ InitializeSearch
  \/ Restart

SpecLinks == Init /\ [][NextLinks]_vars

\* Header merge: one file under two titles, every caller frontmatter, time.
MetaTitles == {Alpha, DotAlpha}
MetaInputs == {RawText(fm, BodyHi, FALSE) : fm \in Fms}

NextMeta ==
  \/ \E t \in MetaTitles, c \in MetaInputs, io \in IoOutcomes : SaveNote(t, c, io)
  \/ \E t \in MetaTitles, io \in IoOutcomes : DeleteNote(t, io)
  \/ \E t \in MetaTitles, io \in IoOutcomes : GetNote(t, io)
  \/ Tick

SpecMeta == Init /\ [][NextMeta]_vars

\* The three stores together: every title, two texts, every operation.
SyncInputs == {RawText(EmptyFm, BodyHi, FALSE), RawText(FmTags, BodySeeBeta, FALSE)}

Next ==
  \/ \E t \in Titles, c \in SyncInputs, io \in IoOutcomes : SaveNote(t, c, io)
  \/ \E t \in Titles, io \in IoOutcomes : DeleteNote(t, io)
  \/ \E t \in Titles, io \in IoOutcomes : GetNote(t, io)
  \/ \E q \in Queries : SearchNotes(q)
  \/ InitializeSearch
  \/ Restart

Spec == Init /\ [][Next]_vars

\* Read-then-save: a put of the text get has just returned, on notes of
\* both texts, before and after the index is initialized, in any minute.
NextRoundTrip ==
  \/ \E t \in MetaTitles, c \in SyncInputs : SaveNote(t, c, "ok")
  \/ \E t \in MetaTitles, io \in IoOutcomes :
       \E n \in GetNoteFrom(disk, t) : SaveNote(t, n.content, io)
  \/ \E t \in MetaTitles : DeleteNote(t, "ok")
  \/ InitializeSearch
  \/ Tick

SpecRoundTrip == Init /\ [][NextRoundTrip]_vars

\* The store contract: a note under two spellings of its title, a title
\* that resolves outside NOTES_DIR, and one that resolves next to it.
StoreTitles == {Alpha, DotAlpha, UpX, SiblingNx}
StoreInputs == {RawText(EmptyFm, BodyHi, FALSE), RawText(FmTags, BodySeeBeta, FALSE)}

NextStore ==
  \/ \E t \in StoreTitles, c \in StoreInputs, io \in IoOutcomes : SaveNote(t, c, io)
  \/ \E t \in StoreTitles, io \in IoOutcomes : DeleteNote(t, io)
  \/ \E t \in StoreTitles, io \in IoOutcomes : GetNote(t, io)

SpecStore == Init /\ [][NextStore]_vars

\* Link targets: texts whose link markup names a note, a path outside
\* NOTES_DIR, or nothing.
TargetInputs ==
  {RawText(EmptyFm, body, FALSE) : body \in {BodyHi, BodySeeBeta, <<Word(W_see), Link(UpX)>>, <<Link(<<" ">>)>>}}

NextTargets ==
  \/ \E t \in LinkTitles, c \in TargetInputs, io \in IoOutcomes : SaveNote(t, c, io)
  \/ \E t \in LinkTitles, io \in IoOutcomes : DeleteNote(t, io)
  \/ InitializeSearch
  \/ Restart

SpecTargets == Init /\ [][NextTargets]_vars

\* Scenario B: three plain titles, the three texts, find and remove.
NextFind ==
  \/ \E t \in {Alpha, Beta, Gamma}, c \in FindInputs, io \in IoOutcomes : SaveNote(t, c, io)
  \/ \E t \in {Alpha, Beta, Gamma}, io \in IoOutcomes : DeleteNote(t, io)
  \/ \E q \in {<<>>, FindQuery} : SearchNotes(q)

SpecFind == Init /\ [][NextFind]_vars

\* The Search Index on its own, driven through the exported searchService
\* as its tests drive it: notes with plain content under two titles.
IndexNotes ==
  {[title |-> t, content |-> RawText(EmptyFm, body, FALSE)] :
     t \in LinkTitles, body \in Bodies}

IndexInitialize(notes) ==
  /\ \A n1, n2 \in notes : n1.title = n2.title => n1 = n2
  /\ index' = Initialize(index, notes)
  /\ isInitialized' = TRUE
  /\ last' = Returned("initialize", <<>>, TRUE)
  /\ UNCHANGED <<disk, linkTracker, clock, calls, lastWriter>>

IndexAddNote(note) ==
  /\ index' = AddNote(index, isInitialized, note)
  /\ last' = Returned("addNote", note.title, TRUE)
  /\ UNCHANGED <<disk, isInitialized, linkTracker, clock, calls, lastWriter>>

IndexRemoveNote(noteTitle) ==
  /\ index' = RemoveNote(index, isInitialized, noteTitle)
  /\ last' = Returned("removeNote", noteTitle, TRUE)
  /\ UNCHANGED <<disk, isInitialized, linkTracker, clock, calls, lastWriter>>

IndexUpdateNote(note) ==
  /\ index' = UpdateNote(index, isInitialized, note)
  /\ last' = Returned("updateNote", note.title, TRUE)
  /\ UNCHANGED <<disk, isInitialized, linkTracker, clock, calls, lastWriter>>

IndexSearch(query) ==
  /\ last' = ReturnedHits("query", query, Search(index, isInitialized, query))
  /\ UNCHANGED <<disk, index, isInitialized, linkTracker, clock, calls, lastWriter>>

NextIndex ==
  \/ \E notes \in SUBSET IndexNotes : IndexInitialize(notes)
  \/ \E note \in IndexNotes : IndexAddNote(note)
  \/ \E t \in LinkTitles : IndexRemoveNote(t)
  \/ \E note \in IndexNotes : IndexUpdateNote(note)
  \/ \E q \in Queries : IndexSearch(q)

SpecIndex == Init /\ [][NextIndex]_vars

\* sanitizeTitle on its own: any title of the characters below goes in, and
\* what comes out can go in again.
TitleChars == {"a", " ", "-", ".", "/"}
TitleStrings == UNION {[1..n -> TitleChars] : n \in 0..MaxTitleLen}

InitSanitize ==
  /\ disk = EmptyDisk
  /\ index = EmptyIndex
  /\ isInitialized = FALSE
  /\ linkTracker = EmptyTracker
  /\ clock = 1
  /\ calls = IdleCalls
  /\ lastWriter = NoWriter
  /\ \E t \in TitleStrings : last = Returned("title", t, TRUE)

\* One call of sanitizeTitle on the title at hand; last.title is what it
\* returned.
Sanitize ==
  /\ last' = Returned("sanitize", SanitizeTitle(last.title), TRUE)
  /\ UNCHANGED <<disk, index, isInitialized, linkTracker, clock, calls, lastWriter>>

NextSanitize == Sanitize

SpecSanitize == InitSanitize /\ [][NextSanitize]_vars

\* initializeSearch in steps, with puts and removes of two notes before,
\* between and after them.
NextRebuild ==
  \/ \E t \in LinkTitles, c \in LinkInputs : SaveNote(t, c, "ok")
  \/ \E t \in LinkTitles : DeleteNote(t, "ok")
  \/ InitReaddir
  \/ \E file \in calls["i"].files, io \in IoOutcomes : InitReadFile(file, io)

SpecRebuild == Init /\ [][NextRebuild]_vars

\* Overlapping calls on one note, in a process whose startup pass has run
\* on an empty notes directory.
InitConc ==
  /\ disk = EmptyDisk
  /\ index = EmptyIndex
  /\ isInitialized = TRUE
  /\ linkTracker = EmptyTracker
  /\ clock = 1
  /\ last = Returned("init", <<>>, TRUE)
  /\ calls = IdleCalls
  /\ lastWriter = NoWriter

NextConc ==
  \/ \E p \in Writers : SaveBegin(p)
  \/ \E p \in Writers : SaveGetNote(p)
  \/ \E p \in Writers, io \in IoOutcomes : SaveOpen(p, io)
  \/ \E p \in Writers, io \in IoOutcomes : SaveWrite(p, io)
  \/ \E p \in Writers : SaveFinish(p)
  \/ \E p \in Readers : GetBegin(p)
  \/ \E p \in Readers, io \in IoOutcomes : GetRead(p, io)

SpecConc == InitConc /\ [][NextConc]_vars

\* One put and one remove of the note "a" overlapping, after any number of
\* puts of it that ran alone.
NextPutRemove ==
  \/ \E c \in LinkInputs :
       AtPc("w2", "idle") /\ AtPc("d", "idle") /\ SaveNote(ConcTitle, c, "ok")
  \/ SaveBegin("w2")
  \/ SaveGetNote("w2")
  \/ \E io \in IoOutcomes : SaveOpen("w2", io)
  \/ \E io \in IoOutcomes : SaveWrite("w2", io)
  \/ SaveFinish("w2")
  \/ DeleteBegin
  \/ \E io \in IoOutcomes : DeleteAccess(io)
  \/ \E io \in IoOutcomes : DeleteUnlink(io)
  \/ DeleteFinish

SpecPutRemove == InitConc /\ [][NextPutRemove]_vars

\* C34: when a put of T and a remove of T that overlapped have both
\* completed (the put stored its text, the remove returned), T has an index
\* entry and recorded outgoing links exactly if its file exists, and they
\* are those of the file.
C34_PutRemoveAgree ==
  (calls["w2"].pc = "done" /\ calls["d"].pc = "done") =>
    IF JoinNotePath(ConcTitle) \in DOMAIN disk
    THEN /\ ConcTitle \in DOMAIN index
         /\ index[ConcTitle].content = disk[JoinNotePath(ConcTitle)]
         /\ GetOutgoingLinks(linkTracker, ConcTitle)
              = {ParseNoteLinks(disk[JoinNotePath(ConcTitle)])[i] :
                   i \in DOMAIN ParseNoteLinks(disk[JoinNotePath(ConcTitle)])}
    ELSE /\ ConcTitle \notin DOMAIN index
         /\ GetOutgoingLinks(linkTracker, ConcTitle) = {}

\* ------------------------------------------------------------------- claims

\* The [[target]] names in the body of a text.
BodyTargets(text) == {text.body[i].val : i \in {j \in 1..Len(text.body) : text.body[j].kind = "link"}}

\* C1: in every reachable state, backlinks(T) contains S if and only if
\* outgoing(S) contains T, for all titles S and T.
C1_BacklinksMirrorOutgoing ==
  \A S \in Names, T \in Names :
    S \in GetBacklinks(linkTracker, T) <=> T \in GetOutgoingLinks(linkTracker, S)

\* C2: when put(S) with a body holding [[T]] has succeeded and the next call,
\* put(T) for another title T, succeeds, then backlinks(T) contains S and
\* outgoing(S) contains T.
C2_TargetWrittenAfterSource ==
  [][\A S \in LinkTitles, T \in LinkTitles :
       (/\ S # T
        /\ last.op = "save" /\ last.title = S /\ last.ok
        /\ T \in BodyTargets(disk[JoinNotePath(S)])
        /\ last'.op = "save" /\ last'.title = T /\ last'.ok)
       => (/\ S \in GetBacklinks(linkTracker, T)'
           /\ T \in GetOutgoingLinks(linkTracker, S)')]_vars

\* The link targets parseNoteLinks finds in a text.
LinkTargets(text) == {ParseNoteLinks(text)[i] : i \in 1..Len(ParseNoteLinks(text))}

\* C3: after a successful create/update(T) with the index initialized, the
\* index entry for T and the text T's outgoing links come from are the text
\* in T's file.
C3_StoresHoldPersistedText ==
  (last.op = "save" /\ last.ok /\ isInitialized) =>
    LET T == last.title
        persisted == disk[JoinNotePath(T)]
    IN /\ T \in DOMAIN index
       /\ index[T] = [title |-> T, content |-> persisted]
       /\ GetOutgoingLinks(linkTracker, T) = LinkTargets(persisted)

C3_Witness ==
  /\ last.op = "save" /\ last.title = Alpha /\ last.ok
  /\ isInitialized
  /\ "tags" \in DOMAIN index[Alpha].content.fm
  /\ index[Alpha].content = disk[JoinNotePath(Alpha)]
  /\ GetOutgoingLinks(linkTracker, Alpha) = {Beta}

\* C4: a create/update whose path is rejected or whose file write throws
\* leaves the Search Index and the Link Graph as they were.
C4_FailedWriteLeavesDerivedStores ==
  [][(last'.op = "save" /\ ~last'.ok) => UNCHANGED <<index, linkTracker>>]_vars

C4_Witness ==
  /\ last.op = "save" /\ last.title = SubX /\ ~last.ok
  /\ isInitialized
  /\ Alpha \in DOMAIN index
  /\ GetOutgoingLinks(linkTracker, Alpha) = {Beta}

\* C5: after remove(T) has returned, true (the file was removed) or false
\* (there was no file), the index holds no entry for T and outgoing(T) is
\* empty.
C5_RemovePurgesRegardless ==
  (last.op = "delete" /\ GetNoteFrom(disk, last.title) = {}) =>
    /\ last.title \notin DOMAIN index
    /\ GetOutgoingLinks(linkTracker, last.title) = {}

\* C6: with the index initialized, a title has a Search Index entry only
\* if its note file exists on disk: a removed note is never returned by
\* search.
C6_IndexedOnlyIfOnDisk ==
  isInitialized =>
    \A T \in Titles : T \in DOMAIN index => GetNoteFrom(disk, T) # {}

\* The stamp a write at minute m records.
StampAt(m) == <<Word(FormatNow(m))>>

C8_ReservedKeysDiscarded ==
  [][\A T \in MetaTitles, c \in MetaInputs :
       (last'.op = "save" /\ last'.title = T /\ last'.ok /\ SaveNote(T, c, "ok"))
       => LET p == JoinNotePath(T)
              stored == disk'[p].fm
          IN /\ stored["title"] = <<Word(T)>>
             /\ stored["updatedAt"] = StampAt(clock)
             /\ stored["createdAt"] =
                  (IF p \in DOMAIN disk THEN disk[p].fm["createdAt"] ELSE StampAt(clock))
             /\ \A k \in DOMAIN c.fm \ {"title", "createdAt", "updatedAt"} :
                  k \in DOMAIN stored /\ stored[k] = c.fm[k]]_vars

\* A put whose header forged the three reserved keys has just returned: its
\* own key is stored, the forged title is not.
C8_Witness ==
  /\ last.op = "save" /\ last.title = Alpha /\ last.ok
  /\ "ref" \in DOMAIN disk[JoinNotePath(Alpha)].fm
  /\ disk[JoinNotePath(Alpha)].fm["ref"] = FmForged["ref"]
  /\ disk[JoinNotePath(Alpha)].fm["title"] # FmForged["title"]

\* C9: after a put the stored non-reserved keys are exactly those of the
\* incoming header: a key the file held before and the header lacks is
\* gone.
C9_UserFieldsReplaced ==
  [][\A T \in MetaTitles, c \in MetaInputs :
       (last'.op = "save" /\ last'.title = T /\ last'.ok /\ SaveNote(T, c, "ok"))
       => DOMAIN disk'[JoinNotePath(T)].fm \ {"title", "createdAt", "updatedAt"}
            = DOMAIN c.fm \ {"title", "createdAt", "updatedAt"}]_vars

\* A put without tags has just returned on a note that was stored with tags.
C9_Witness ==
  /\ last.op = "save" /\ last.title = Alpha /\ last.ok
  /\ "tags" \in last.priorKeys
  /\ "tags" \notin DOMAIN disk[JoinNotePath(Alpha)].fm

\* The hits of a search that are the note of title T: those whose title
\* names T's file.
HitsOf(T, hits) == {h \in hits : JoinNotePath(h.title) = JoinNotePath(T)}

C11_DeleteResult ==
  [][\A T \in StoreTitles, io \in IoOutcomes :
       (last'.op = "delete" /\ last'.title = T /\ DeleteNote(T, io))
       => LET p == JoinNotePath(T)
          IN /\ last'.ok <=> (p \in DOMAIN disk /\ p \notin DOMAIN disk')
             /\ p \notin DOMAIN disk => (~last'.ok /\ last'.raised = "none")]_vars

\* Scenario E: remove of a title no file exists for has returned false.
C11_Witness ==
  /\ last.op = "delete" /\ last.title = Alpha /\ ~last.ok /\ last.raised = "none"
  /\ disk = EmptyDisk

\* The titles list() returns.
ListedTitles(d) == {n.title : n \in GetAllNotes(d)}

\* C12: get of an absent note returns null and raises nothing; after a
\* delete(T) that returned true, get(T) finds nothing and list() has no
\* note titled T, unless the call in between is a successful put(T).
C12_AbsentAfterDelete ==
  [][/\ (last'.op = "get" /\ GetNoteFrom(disk', last'.title) = {})
          => (~last'.ok /\ last'.raised = "none")
     /\ \A T \in StoreTitles :
          (/\ last.op = "delete" /\ last.title = T /\ last.ok
           /\ ~(last'.op = "save" /\ last'.title = T /\ last'.ok))
          => (GetNoteFrom(disk', T) = {} /\ T \notin ListedTitles(disk'))]_vars

\* A path strictly inside the notes root: below NOTES_DIR.
InsideRoot(p) ==
  LET root == Normalize(NOTES_DIR)
  IN Len(p) > Len(root) /\ SubSeq(p, 1, Len(root)) = root

\* C13: no operation writes a file outside the notes root: every file there
\* is lies strictly inside NOTES_DIR, and a file next to NOTES_DIR whose
\* name begins with its name is outside.
C13_FilesInsideRoot ==
  \A p \in DOMAIN disk : InsideRoot(p)

\* C14: a put whose title has traversal sequences succeeds, stores the note
\* in a file inside the notes root, and get with the same title returns
\* that note under the title as given.
C14_TraversalTitleStored ==
  [][\A c \in StoreInputs :
       (last'.op = "save" /\ last'.title = UpX /\ SaveNote(UpX, c, "ok"))
       => /\ last'.ok
          /\ \E p \in DOMAIN disk' :
               /\ InsideRoot(p)
               /\ disk'[p].body = c.body
               /\ GetNoteFrom(disk', UpX) = {[title |-> UpX, content |-> disk'[p]]}]_vars

\* A title sanitizeTitle has nothing to do on: allowed characters only, no
\* whitespace at either end.
SafeTitle(t) ==
  /\ \A i \in 1..Len(t) : t[i] \in AllowedChars
  /\ t # <<>> => (t[1] \notin Whitespace /\ t[Len(t)] \notin Whitespace)

\* C15: sanitizing a sanitized title returns it unchanged, sanitizing a safe
\* title returns it unchanged, and a title and its sanitized form address
\* the same file.
C15_SanitizeIdempotent ==
  [][last'.op = "sanitize"
     => LET t == last.title
            r == last'.title
        IN /\ last.op = "sanitize" => r = t
           /\ SafeTitle(t) => r = t
           /\ SanitizedNotePath(r) = SanitizedNotePath(t)]_vars

\* sanitizeTitle has returned a title with whitespace inside it.
C15_Witness ==
  /\ last.op = "sanitize"
  /\ last.title = <<"a", " ", "a">>

\* C16: when the path resolver rejects the title, get, put and delete
\* raise InvalidPath to their caller.
C16_InvalidPathPropagates ==
  (last.op \in {"get", "save", "delete"} /\ ~PathAccepted(last.title))
    => last.raised = "InvalidPath"

\* C17: a get that returned null and a delete that returned false mean that
\* the file does not exist; a file that exists and cannot be read or removed
\* is reported as an error.
C17_NotFoundMeansAbsent ==
  (last.op \in {"get", "delete"} /\ ~last.ok /\ last.raised = "none")
    => JoinNotePath(last.title) \notin DOMAIN disk

\* The texts some saveNote call has built so far.
BuiltTexts == {calls[w].text : w \in {v \in Writers : calls[v].pc \notin {"idle", "getNote"}}}

\* C18: a get that ran while puts of the same title were in progress saw no
\* file (the state before the first put) or the complete text one of the
\* puts built, never an empty or partial file; and a put whose write failed,
\* with no other put under way, leaves the file as it was before.
C18_PutAtomic ==
  /\ \A r \in Readers : calls[r].pc = "done" => calls[r].seen \subseteq BuiltTexts
  /\ \A w \in Writers :
       (calls[w].pc = "failed" /\ \A v \in Writers \ {w} : calls[v].pc = "idle")
         => disk = EmptyDisk

\* C19: two overlapping saveNote calls for one title are not serialized;
\* when both have completed, the file holds the text of the call whose
\* write came last, and the index entry and the outgoing links are those
\* of the call whose lines 288-296 ran last, whichever call that is.
C19_LastWriteWinsPerStore ==
  (\A w \in Writers : calls[w].pc = "done") =>
    /\ disk[JoinNotePath(ConcTitle)] = calls[lastWriter.file].text
    /\ index[ConcTitle].content = calls[lastWriter.derived].text
    /\ GetOutgoingLinks(linkTracker, ConcTitle) = LinkTargets(calls[lastWriter.derived].text)

C19_Witness ==
  /\ \A w \in Writers : calls[w].pc = "done"
  /\ disk[JoinNotePath(ConcTitle)] = calls["w2"].text
  /\ index[ConcTitle].content = calls["w1"].text
  /\ index[ConcTitle].content # disk[JoinNotePath(ConcTitle)]
  /\ GetOutgoingLinks(linkTracker, ConcTitle) = {}
  /\ LinkTargets(disk[JoinNotePath(ConcTitle)]) = {Beta}

\* The Link Graph lt holds exactly the links of the notes stored in d.
Populated(d, lt) ==
  /\ \A n \in GetAllNotes(d) : GetOutgoingLinks(lt, n.title) = LinkTargets(n.content)
  /\ \A T \in Names :
       GetBacklinks(lt, T) = {n.title : n \in {m \in GetAllNotes(d) : T \in LinkTargets(m.content)}}

\* C20: after the startup pass (initializeSearch in a process that has just
\* started) the Link Graph holds exactly the links of the stored notes, in
\* whatever order the notes were listed.
C20_StartupPopulatesLinks ==
  [][(last.op = "start" /\ last'.op = "init") => Populated(disk', linkTracker')]_vars

\* C21: a put of T replaces T's outgoing edges: afterwards outgoing(T) is
\* the set of targets of the text written, every target T linked before and
\* no longer links has lost T from its backlinks, and every target of the
\* text has T in its backlinks.
C21_OutgoingReplaced ==
  [][\A T \in LinkTitles :
       (last'.op = "save" /\ last'.title = T /\ last'.ok)
       => LET old == GetOutgoingLinks(linkTracker, T)
              new == LinkTargets(disk'[JoinNotePath(T)])
          IN /\ GetOutgoingLinks(linkTracker', T) = new
             /\ \A U \in old \ new : T \notin GetBacklinks(linkTracker', U)
             /\ \A U \in new : T \in GetBacklinks(linkTracker', U)]_vars

\* An update of "a" whose text links to "a" only has returned, and "b",
\* which "a" can have linked before, has no backlink from "a".
C21_Witness ==
  /\ last.op = "save" /\ last.title = Alpha /\ last.ok
  /\ "title" \in last.priorKeys
  /\ GetOutgoingLinks(linkTracker, Alpha) = {Alpha}
  /\ Alpha \in GetBacklinks(linkTracker, Alpha)
  /\ Alpha \notin GetBacklinks(linkTracker, Beta)
  /\ GetOutgoingLinks(linkTracker, Beta) = {Beta}

\* C22: after a remove of T that removed the file, T is no source and no
\* target of any edge: outgoing(T) and backlinks(T) are empty, and T is in
\* no backlinks(U) and in no outgoing(S).
C22_RemoveAllEverywhere ==
  (last.op = "delete" /\ last.ok) =>
    LET T == last.title
    IN /\ GetOutgoingLinks(linkTracker, T) = {}
       /\ GetBacklinks(linkTracker, T) = {}
       /\ \A U \in Names : T \notin GetBacklinks(linkTracker, U)
       /\ \A S \in Names : T \notin GetOutgoingLinks(linkTracker, S)

\* What the stores hold for the note T: its file, its index entry, its
\* outgoing links.
NoteState(d, idx, lt, T) ==
  <<IF JoinNotePath(T) \in DOMAIN d THEN {d[JoinNotePath(T)]} ELSE {},
    IF T \in DOMAIN idx THEN {idx[T]} ELSE {},
    GetOutgoingLinks(lt, T)>>

\* C35: a put or a remove of T1 that succeeded leaves the file, the index
\* entry and outgoing(T2) of every other note T2 as they were, and changes
\* backlinks(U) only of titles U that T1 linked to before or links to now.
C35_OtherTitlesUntouched ==
  [][\A T1 \in LinkTitles :
       (last'.op \in {"save", "delete"} /\ last'.title = T1 /\ last'.ok)
       => /\ \A T2 \in LinkTitles \ {T1} :
               NoteState(disk', index', linkTracker', T2) = NoteState(disk, index, linkTracker, T2)
          /\ \A U \in Names :
               GetBacklinks(linkTracker', U) # GetBacklinks(linkTracker, U)
               => U \in GetOutgoingLinks(linkTracker, T1) \cup GetOutgoingLinks(linkTracker', T1)]_vars

\* C36: on an initialized index, after any completed puts and removes, the
\* entries of the Search Index are those a fresh initialize of the notes
\* list() returns now would produce.
C36_IncrementalEqualsRebuild ==
  isInitialized => index = Initialize(index, GetAllNotes(disk))

\* C37: a put or a remove under the title T1 never overwrites or deletes
\* the file of a note stored under another title: accepted titles that
\* differ resolve to different files.
C37_TitlesOneToOne ==
  [][\A T1 \in StoreTitles :
       (last'.op \in {"save", "delete"} /\ last'.title = T1 /\ last'.ok)
       => \A p \in DOMAIN disk :
            disk[p].fm["title"] # <<Word(T1)>> => (p \in DOMAIN disk' /\ disk'[p] = disk[p])]_vars

\* C38: a put of T with the content get(T) returns leaves the stored body
\* and every header field but updatedAt as they were (title and createdAt
\* included, no field added or dropped), and an index entry and outgoing
\* links that were those of the stored text are those of the text stored
\* now.
C38_ReadThenSave ==
  [][\A T \in MetaTitles :
       (last'.op = "save" /\ last'.title = T /\ last'.ok /\ GetNoteFrom(disk, T) # {})
       => \A n \in GetNoteFrom(disk, T) :
            SaveNote(T, n.content, "ok")
            => LET old == disk[JoinNotePath(T)]
                   new == disk'[JoinNotePath(T)]
               IN /\ new.body = old.body
                  /\ DOMAIN new.fm = DOMAIN old.fm
                  /\ \A k \in DOMAIN old.fm \ {"updatedAt"} : new.fm[k] = old.fm[k]
                  /\ (T \in DOMAIN index /\ index[T].content = old)
                       => (T \in DOMAIN index' /\ index'[T].content = new)
                  /\ GetOutgoingLinks(linkTracker, T) = LinkTargets(old)
                       => GetOutgoingLinks(linkTracker', T) = LinkTargets(new)]_vars

\* C39: a searchNotes with a non-blank query on an uninitialized index
\* rebuilds the index and the Link Graph from the stored notes first: the
\* index is initialized afterwards and holds the stored notes, the Link
\* Graph holds their links, and the call returns the stored notes that
\* match the query, saved before any initialization.
C39_LazyInitialization ==
  [][(last'.op = "search" /\ Trim(last'.title) # <<>> /\ ~isInitialized)
       => /\ isInitialized'
          /\ index' = Initialize(EmptyIndex, GetAllNotes(disk))
          /\ Populated(disk', linkTracker')
          /\ last'.hits = {n \in GetAllNotes(disk) : DocMatches(n, last'.title)}]_vars

\* C23: after any put, every target in an outgoing set and every title
\* that has backlinks is a valid link target (not empty after trimming, no
\* "..", "/" or "\"); invalid targets of the text are dropped.
C23_OnlyValidTargetsRecorded ==
  /\ \A S \in Names : \A t \in GetOutgoingLinks(linkTracker, S) : IsValidLinkTarget(t)
  /\ \A U \in Names : GetBacklinks(linkTracker, U) # {} => IsValidLinkTarget(U)

\* C24: only the body of a note is scanned for links: after a successful
\* put of T every outgoing edge of T is a [[target]] of the body of T's
\* text, none comes from a value of the header block.
C24_HeaderNotScanned ==
  (last.op = "save" /\ last.ok) =>
    GetOutgoingLinks(linkTracker, last.title) \subseteq BodyTargets(disk[JoinNotePath(last.title)])

\* C25: searchService.search returns no note for a query that is empty
\* or only whitespace, and for any query while the index is uninitialized.
C25_BlankOrUninitializedEmpty ==
  (last.op = "query" /\ (Trim(last.title) = <<>> \/ ~isInitialized)) => last.hits = {}

\* A whitespace-only query on an initialized index that holds two notes
\* has returned nothing.
C25_Witness ==
  /\ last.op = "query" /\ last.title = <<" ">> /\ last.hits = {}
  /\ isInitialized
  /\ DOMAIN index = LinkTitles

\* C26: searchNotes with a query that is empty or only whitespace returns
\* every note of the store, the set getAllNotes lists, whatever the index
\* holds.
C26_BlankFindListsAll ==
  (last.op = "search" /\ Trim(last.title) = <<>>) => last.hits = GetAllNotes(disk)

\* A whitespace-only find has returned the two stored notes while the
\* index is uninitialized and empty.
C26_Witness ==
  /\ last.op = "search" /\ last.title = <<" ">>
  /\ ListedTitles(disk) = {Alpha, Beta}
  /\ {h.title : h \in last.hits} = {Alpha, Beta}
  /\ ~isInitialized /\ index = EmptyIndex

\* C27: initialize(notes) clears and reindexes: afterwards the indexed
\* titles are the titles of the notes passed in, no search returns an entry
\* that was not passed in, and the index is initialized, also when no note
\* is passed in.
C27_RebuildClearsAndReindexes ==
  [][\A notes \in SUBSET IndexNotes :
       (last'.op = "initialize" /\ IndexInitialize(notes))
       => /\ DOMAIN index' = {n.title : n \in notes}
          /\ isInitialized'
          /\ \A q \in Queries : Search(index', isInitialized', q) \subseteq notes]_vars

\* initialize([]) has returned: the index is initialized and holds nothing.
C27_Witness ==
  /\ last.op = "initialize"
  /\ isInitialized
  /\ index = EmptyIndex

\* C28: on an initialized index, addNote and updateNote leave exactly one
\* entry for the note's title, with the content just passed, and leave every
\* other entry as it was, whether or not the title was indexed; removeNote
\* takes the title's entry out, changes nothing else, and changes nothing at
\* all when the title is not indexed; no search returns two entries of one
\* title.
C28_UpdateIsRemoveThenAdd ==
  [][isInitialized =>
       /\ \A note \in IndexNotes :
            (/\ last'.op \in {"addNote", "updateNote"} /\ last'.title = note.title
             /\ (IndexAddNote(note) \/ IndexUpdateNote(note)))
            => /\ DOMAIN index' = DOMAIN index \cup {note.title}
               /\ index'[note.title] = [title |-> note.title, content |-> note.content]
               /\ \A t \in DOMAIN index \ {note.title} : index'[t] = index[t]
       /\ \A T \in LinkTitles :
            (last'.op = "removeNote" /\ IndexRemoveNote(T))
            => /\ DOMAIN index' = DOMAIN index \ {T}
               /\ \A t \in DOMAIN index' : index'[t] = index[t]
       /\ \A q \in Queries :
            \A h1, h2 \in Search(index', isInitialized', q) : h1.title = h2.title => h1 = h2]_vars

\* updateNote has replaced the entry of "a" next to the entry of "b".
C28_Witness ==
  /\ last.op = "updateNote" /\ last.title = Alpha
  /\ isInitialized
  /\ DOMAIN index = {Alpha, Beta}
  /\ index[Alpha].content.body = BodySeeBeta
  /\ index[Beta].content.body = BodyHi

\* C29: while the index is uninitialized, addNote, removeNote and
\* updateNote change nothing: the index holds the same entries after the
\* call as before, and stays uninitialized.
C29_UninitializedNoOp ==
  [][(~isInitialized /\ last'.op \in {"addNote", "removeNote", "updateNote"})
       => (index' = index /\ ~isInitialized')]_vars

\* updateNote has returned on the index that was never initialized.
C29_Witness ==
  /\ last.op = "updateNote" /\ last.title = Alpha
  /\ ~isInitialized
  /\ index = EmptyIndex

\* C30: a query of several terms returns the notes that match at least
\* one of them: find("gravity calculus") returns exactly the stored notes
\* whose body is "gravity" or "calculus", not the one with "chemical
\* reactions".
C30_AnyTermMatches ==
  (last.op = "search" /\ last.title = FindQuery) =>
    {h.title : h \in last.hits} =
      {n.title : n \in {m \in GetAllNotes(disk) :
                          m.content.body \in {<<Word(W_gravity)>>, <<Word(W_calculus)>>}}}

\* Scenario B: "a" holds "gravity", "b" holds "calculus", "x" holds
\* "chemical reactions", and the find has returned "a" and "b".
C30_Witness ==
  /\ last.op = "search" /\ last.title = FindQuery
  /\ ListedTitles(disk) = {Alpha, Beta, Gamma}
  /\ disk[JoinNotePath(Alpha)].body = <<Word(W_gravity)>>
  /\ disk[JoinNotePath(Beta)].body = <<Word(W_calculus)>>
  /\ Len(disk[JoinNotePath(Gamma)].body) = 2
  /\ {h.title : h \in last.hits} = {Alpha, Beta}

\* C32: the startup rebuild does not abort on a note whose file cannot be
\* read: when it ends, the index is initialized and holds every note that
\* was read.
C32_BatchSkipsBadNote ==
  [][(calls["i"].pc = "reading" /\ calls'["i"].pc \in {"done", "failed"})
       => /\ isInitialized'
          /\ \A k \in 1..Len(calls'["i"].seen) :
               LET n == calls'["i"].seen[k]
               IN n.title \in DOMAIN index' /\ index'[n.title].content = n.content]_vars

\* C33: when initializeSearch has completed, also with puts and removes
\* completed while it was in progress, the Search Index agrees with disk
\* for every title: an entry with the persisted text if the file exists, no
\* entry if it does not.
C33_RebuildAgreesWithDisk ==
  (last.op = "init" /\ last.ok) =>
    \A T \in LinkTitles :
      IF JoinNotePath(T) \in DOMAIN disk
      THEN T \in DOMAIN index /\ index[T].content = disk[JoinNotePath(T)]
      ELSE T \notin DOMAIN index

====
